---- MODULE Spec2Model ----
(***************************************************************************)
(* Model of simulator_core.solver.network.network.Network and of the       *)
(* entities it stores (BaseNodeItem, BaseAsset, BaseBoundary, Node).       *)
(*                                                                         *)
(* Python objects live in two heaps (aheap for assets, nheap for nodes)    *)
(* and are referred to by their position in the heap, so that an object    *)
(* keeps its identity when the network's dictionaries drop or replace it.  *)
(* The dictionaries Network.assets and Network.nodes are sequences of      *)
(* [key, obj] entries in insertion order, as a Python dict keeps them.     *)
(***************************************************************************)
EXTENDS Integers, Sequences, FiniteSets, TLC

VARIABLES
    aheap,   \* asset objects ever constructed; an asset is named by its index
    nheap,   \* node objects ever constructed; a node is named by its index
    assets,  \* Network.assets: sequence of [key, obj], obj an index of aheap
    nodes,   \* Network.nodes: sequence of [key, obj], obj an index of nheap
    last,    \* the last call: [op, line, ret, exc], line the source line of
             \* the return or raise statement that ended it, exc the
             \* exception raised ("" when the call returned)
    sim,     \* a call of NetworkSimulation.run: [pc, config, taken, time,
             \* not_converged, controller_input, met, events], pc the source
             \* line the call stands at (0: not called, 50: returned), taken
             \* the number of values the for loop has taken from its range
    pipe,    \* a SolverPipe in the hands of a caller: [prev_sol,
             \* heat_supplied, _internal_energy_grid]
    pandapipes_net,  \* the tables of a pandapipesNet: junction,
             \* circ_pump_mass, flow_control, heat_exchanger, each the
             \* sequence of its rows
    cluster, \* a ProductionCluster of the net: [made, temperature_supply,
             \* temperature_return, _controlled_mass_flow, _initialized,
             \* _circ_pump, _flow_control, setters], made whether it has
             \* been constructed, setters the private setters that the
             \* last set_setpoints call has run
    exchanger  \* a HeatExchanger of the net: [made, index, _initialized,
             \* from_junction, to_junction]

vars == <<aheap, nheap, assets, nodes, last, sim, pipe, pandapipes_net, cluster,
         exchanger>>
asset_layer == <<pandapipes_net, cluster, exchanger>>
net == <<aheap, nheap, assets, nodes>>

----------------------------------------------------------------------------
(* Bounds of the model *)

\* calls in one behaviour that construct an asset or connect two assets
MaxCalls == 4
\* construction calls in a behaviour that goes on to index and scatter
MaxBuildCalls == MaxCalls - 1
\* size of the pool uuid values are drawn from: every object can have a
\* name of its own and one id is left that names nothing
MaxId == MaxCalls + 1
\* length of a solution vector shorter than the network's
ShortLen == 4
\* largest stop time of a simulation configuration
MaxStop == 4
\* largest discharge, in either direction, of a pipe
MaxDischarge == 3
\* number of cells of the internal grid of a pipe
MaxGridSize == 3

IDs == 1..MaxId

\* Python's None
None == 0

----------------------------------------------------------------------------
(* Small helpers *)

Min(a, b) == IF a < b THEN a ELSE b

Range(s) == {s[i] : i \in DOMAIN s}

\* solution[index : index + nou] on a Python list (0-based, clamped to the list)
Slice(solution, index, nou) ==
    SubSeq(solution, index + 1, Min(index + nou, Len(solution)))

----------------------------------------------------------------------------
(* Python dict keyed by uuid, in insertion order *)

DictKeys(d) == {d[i].key : i \in DOMAIN d}

DictHas(d, k) == k \in DictKeys(d)

DictPos(d, k) == CHOOSE i \in DOMAIN d : d[i].key = k

DictGet(d, k) == d[DictPos(d, k)].obj

\* the entries of d and the entry e, in the order of their keys
RECURSIVE InsertByKey(_, _)
InsertByKey(d, e) ==
    IF d = << >> THEN <<e>>
    ELSE IF e.key < d[1].key THEN <<e>> \o d
    ELSE <<d[1]>> \o InsertByKey(Tail(d), e)

\* a dictionary that keeps its entries in the order of their keys
DictSet_by_key(d, k, v) ==
    IF DictHas(d, k)
    THEN [d EXCEPT ![DictPos(d, k)] = [key |-> k, obj |-> v]]
    ELSE InsertByKey(d, [key |-> k, obj |-> v])

\* d[k] = v: a present key keeps its position, a new key goes last
DictSet(d, k, v) ==
    IF DictHas(d, k)
    THEN [d EXCEPT ![DictPos(d, k)] = [key |-> k, obj |-> v]]
    ELSE Append(d, [key |-> k, obj |-> v])

----------------------------------------------------------------------------
(* Entities *)

\* BaseNodeItem.__init__
BaseNodeItem(number_of_unknowns, name) ==
    [name |-> name,
     number_of_unknowns |-> number_of_unknowns,
     matrix_index |-> 0,
     prev_sol |-> [i \in 1..number_of_unknowns |-> 0]]

\* a setter that does not store the index
set_matrix_index_lost(item, index) == item

\* BaseNodeItem.set_matrix_index(index) applied to the object item
set_matrix_index(item, index) == [item EXCEPT !.matrix_index = index]

\* BaseAsset.__init__: the item's fields and no connection point bound
BaseAsset(name, kind, number_of_unknowns, number_con_points) ==
    [name |-> name,
     kind |-> kind,
     number_of_unknowns |-> number_of_unknowns,
     number_of_connection_point |-> number_con_points,
     matrix_index |-> 0,
     prev_sol |-> [i \in 1..number_of_unknowns |-> 0],
     connected_nodes |-> [p \in 0..(number_con_points - 1) |-> None]]

\* BaseBoundary.__init__(name, number_of_unknowns = 3, number_con_points = 1)
BaseBoundary(name) ==
    BaseAsset(name, "Boundary", 3, 1) @@ [initial_pressure |-> 10000]

\* the two-point variants: three unknowns per connection point
TwoPointAsset(name, kind) == BaseAsset(name, kind, 6, 2)

\* Node.__init__: three unknowns, no asset registered
Node(name) ==
    [name |-> name,
     number_of_unknowns |-> 3,
     matrix_index |-> 0,
     prev_sol |-> [i \in 1..3 |-> 0],
     connected_assets |-> << >>]

\* Network.str_to_class_dict
str_to_class_dict == {"Boundary", "Asset", "Fall", "Production", "Pipe"}

\* str_to_class_dict[asset_type](name)
Construct(asset_type, name) ==
    IF asset_type = "Boundary" THEN BaseBoundary(name)
    ELSE TwoPointAsset(name, asset_type)

\* BaseAsset.is_connected(connection_point)
is_connected(asset, connection_point) ==
    asset.connected_nodes[connection_point] # None

\* BaseAsset.is_all_connected()
is_all_connected(asset) ==
    \A p \in DOMAIN asset.connected_nodes : is_connected(asset, p)

\* BaseAsset.get_connected_node(connection_point)
get_connected_node(asset, connection_point) ==
    asset.connected_nodes[connection_point]

\* BaseAsset.connect_node(connection_point, node)
connect_node(asset, connection_point, node) ==
    [asset EXCEPT !.connected_nodes[connection_point] = node]

\* Node.connect_asset(asset, connection_point)
connect_asset(node, asset, connection_point) ==
    [node EXCEPT !.connected_assets = Append(@, <<asset, connection_point>>)]

\* Node.is_connected()
node_is_connected(node) == Len(node.connected_assets) > 0

----------------------------------------------------------------------------
(* State *)

Init ==
    /\ aheap = << >>
    /\ nheap = << >>
    /\ assets = << >>
    /\ nodes = << >>
    /\ last = [op |-> "__init__", line |-> 44, ret |-> None, exc |-> ""]
    /\ sim = [pc |-> 0, config |-> None, taken |-> 0, time |-> None,
              not_converged |-> FALSE, controller_input |-> None,
              met |-> FALSE, events |-> << >>]
    /\ pipe = [prev_sol |-> [i \in 1..6 |-> 0], heat_supplied |-> 0,
               _internal_energy_grid |-> [k \in 1..MaxGridSize |-> 0]]
    /\ pandapipes_net = [junction |-> << >>, circ_pump_mass |-> << >>,
                         flow_control |-> << >>, heat_exchanger |-> << >>]
    /\ cluster = [made |-> FALSE, temperature_supply |-> None,
                  temperature_return |-> None, _controlled_mass_flow |-> None,
                  _initialized |-> FALSE, _circ_pump |-> None,
                  _flow_control |-> None, setters |-> << >>]
    /\ exchanger = [made |-> FALSE, index |-> {}, _initialized |-> FALSE,
                    from_junction |-> None, to_junction |-> None]

\* the names of all objects constructed so far; uuid.uuid4() returns none of them
UsedIds ==
    {aheap[o].name : o \in DOMAIN aheap} \cup {nheap[n].name : n \in DOMAIN nheap}

\* the smallest element of a non-empty set of ids
MinId(S) == CHOOSE id \in S : \A other \in S : id <= other

\* the largest element of a non-empty set of ids
MaxIdOf(S) == CHOOSE id \in S : \A other \in S : id >= other

\* the values uuid.uuid4() may return: an id no object has.  Ids are only
\* compared for equality, so one unused id stands for all of them; it is the
\* largest, so that ids do not grow in the order they are handed out.
uuid4 == IF IDs \subseteq UsedIds THEN {} ELSE {MaxIdOf(IDs \ UsedIds)}

\* the call returned ret at the source line
Return(op, line, ret) == [op |-> op, line |-> line, ret |-> ret, exc |-> ""]

\* the call raised the exception exc at the source line
Raise(op, line, exc) == [op |-> op, line |-> line, ret |-> None, exc |-> exc]

\* an exception is caught nowhere but at the entry point, which logs it and
\* raises it again: the run that got one makes no further call
Failed == last.exc # ""

\* the (asset, point) pairs registered on all nodes
RECURSIVE Registrations(_)
Registrations(n) ==
    IF n = 0 THEN 0 ELSE Len(nheap[n].connected_assets) + Registrations(n - 1)

\* the calls made so far that constructed an asset, connected two assets or
\* bound a point to a node of the caller's: a connection that makes a node
\* registers two pairs on it, any other one; a node of the caller's is in
\* no dictionary of the network
Calls ==
    Len(aheap) + Registrations(Len(nheap)) + Len(nheap)
        - 2 * Cardinality({nodes[i].obj : i \in DOMAIN nodes})

\* the asset objects and node objects stored in the network
NetAssetObjs == {assets[i].obj : i \in DOMAIN assets}

NetNodeObjs == {nodes[i].obj : i \in DOMAIN nodes}

----------------------------------------------------------------------------
(* Network: queries *)

\* Network.exists_asset(asset_id)
exists_asset(asset_id) == DictHas(assets, asset_id)

\* Network.exists_node(asset_id)
exists_node(asset_id) == DictHas(nodes, asset_id)

\* a check that is content with one connected asset
check_connectivity_assets_any ==
    \E i \in DOMAIN assets : is_all_connected(aheap[assets[i].obj])

\* Network.check_connectivity_assets()
check_connectivity_assets ==
    \A i \in DOMAIN assets : is_all_connected(aheap[assets[i].obj])

\* Network.check_connectivity_nodes()
check_connectivity_nodes ==
    \A i \in DOMAIN nodes : node_is_connected(nheap[nodes[i].obj])

\* Network.check_connectivity()
check_connectivity == check_connectivity_assets /\ check_connectivity_nodes

----------------------------------------------------------------------------
(* Network: construction.  Each operation is the set of outcomes of one   *)
(* call in the current state: the four parts of the network and the call   *)
(* record.  uuid.uuid4() makes the set larger than one.                    *)

State(a, n, as, ns, l) ==
    [aheap |-> a, nheap |-> n, assets |-> as, nodes |-> ns, last |-> l]

\* the call changed nothing
Same(l) == State(aheap, nheap, assets, nodes, l)

\* a lookup that accepts every kind
KnownKind_any(asset_type) == TRUE

\* asset_type in self.str_to_class_dict
KnownKind(asset_type) == asset_type \in str_to_class_dict

\* Network.add_asset(asset_type, name)
add_asset(asset_type, name) ==
    IF ~KnownKind(asset_type)
    THEN {Same(Raise("add_asset", 57, "ValueError"))}
    ELSE {State(Append(aheap, Construct(asset_type, id)), nheap,
                DictSet(assets, id, Len(aheap) + 1), nodes,
                Return("add_asset", 61, id)) :
            id \in (IF name = None THEN uuid4 ELSE {name})}

\* a check that finds no name taken
NameTaken_never(name) == FALSE

\* asset.name in self.assets
NameTaken(name) == DictHas(assets, name)

\* Network.add_existing_asset(asset), asset an object of aheap
add_existing_asset(asset) ==
    IF NameTaken(aheap[asset].name)
    THEN {Same(Raise("add_existing_asset", 72, "ValueError"))}
    ELSE {State(aheap, nheap, DictSet(assets, aheap[asset].name, asset), nodes,
                Return("add_existing_asset", 74, aheap[asset].name))}

\* a first branch that does not register the second asset on the new Node
connect_new_half(a1, cp1, a2, cp2) ==
    LET n == Len(nheap) + 1
        ah1 == [aheap EXCEPT ![a1] = connect_node(@, cp1, n)]
        ah2 == [ah1 EXCEPT ![a2] = connect_node(@, cp2, n)]
    IN  {LET nh0 == Append(nheap, Node(asset_id))
             nh1 == [nh0 EXCEPT ![n] = connect_asset(@, a1, cp1)]
         IN  State(ah2, nh1, assets, DictSet(nodes, asset_id, n),
                   Return("connect_assets", 105, asset_id)) :
           asset_id \in uuid4}

\* a first branch that stores the new Node and registers no asset on it
connect_new_unregistered(a1, cp1, a2, cp2) ==
    LET n == Len(nheap) + 1
        ah1 == [aheap EXCEPT ![a1] = connect_node(@, cp1, n)]
        ah2 == [ah1 EXCEPT ![a2] = connect_node(@, cp2, n)]
    IN  {State(ah2, Append(nheap, Node(asset_id)), assets,
               DictSet(nodes, asset_id, n),
               Return("connect_assets", 105, asset_id)) :
           asset_id \in uuid4}

\* connect_assets, first branch: both points unconnected, a new Node joins them
connect_new(a1, cp1, a2, cp2) ==
    LET n == Len(nheap) + 1
        ah1 == [aheap EXCEPT ![a1] = connect_node(@, cp1, n)]
        ah2 == [ah1 EXCEPT ![a2] = connect_node(@, cp2, n)]
    IN  {LET nh0 == Append(nheap, Node(asset_id))
             nh1 == [nh0 EXCEPT ![n] = connect_asset(@, a1, cp1)]
             nh2 == [nh1 EXCEPT ![n] = connect_asset(@, a2, cp2)]
         IN  State(ah2, nh2, assets, DictSet(nodes, asset_id, n),
                   Return("connect_assets", 105, asset_id)) :
           asset_id \in uuid4}

\* a reuse that registers the asset on the node but does not bind its point
connect_reuse_unbound(line, a_conn, cp_conn, a_free, cp_free) ==
    LET node == get_connected_node(aheap[a_conn], cp_conn)
    IN  {State(aheap,
               [nheap EXCEPT ![node] = connect_asset(@, a_free, cp_free)],
               assets, nodes,
               Return("connect_assets", line, nheap[node].name))}

\* a reuse that binds the point but does not register the asset on the node
connect_reuse_unregistered(line, a_conn, cp_conn, a_free, cp_free) ==
    LET node == get_connected_node(aheap[a_conn], cp_conn)
    IN  {State([aheap EXCEPT ![a_free] = connect_node(@, cp_free, node)],
               nheap, assets, nodes,
               Return("connect_assets", line, nheap[node].name))}

\* connect_assets, second and third branch: the point cp_free of the asset
\* a_free joins the node of the point cp_conn of the asset a_conn
connect_reuse(line, a_conn, cp_conn, a_free, cp_free) ==
    LET node == get_connected_node(aheap[a_conn], cp_conn)
    IN  {State([aheap EXCEPT ![a_free] = connect_node(@, cp_free, node)],
               [nheap EXCEPT ![node] = connect_asset(@, a_free, cp_free)],
               assets, nodes,
               Return("connect_assets", line, nheap[node].name))}

\* a check of the second asset id that comes after the Node is made
asset2_missing_late(asset2) ==
    {State(aheap, Append(nheap, Node(asset_id)), assets,
           DictSet(nodes, asset_id, Len(nheap) + 1),
           Raise("connect_assets", 94, "ValueError")) :
       asset_id \in uuid4}

\* connect_assets, the check of the second asset id failed
asset2_missing(asset2) == {Same(Raise("connect_assets", 94, "ValueError"))}

\* a last branch that moves the second point to the node of the first
both_connected_merge(a1, cp1, a2, cp2) ==
    LET node == get_connected_node(aheap[a1], cp1)
    IN  {State([aheap EXCEPT ![a2] = connect_node(@, cp2, node)],
               [nheap EXCEPT ![node] = connect_asset(@, a2, cp2)],
               assets, nodes,
               Return("connect_assets", 128, nheap[node].name))}

\* connect_assets, last branch: both points are connected already
both_connected(a1, cp1, a2, cp2) ==
    {Same(Raise("connect_assets", 128, "NotImplementedError"))}

\* Network.connect_assets(asset1, connection_point_1, asset2, connection_point_2)
connect_assets(asset1, connection_point_1, asset2, connection_point_2) ==
        IF ~exists_asset(asset1)
        THEN {Same(Raise("connect_assets", 92, "ValueError"))}
        ELSE IF ~exists_asset(asset2)
        THEN asset2_missing(asset2)
        ELSE
          LET a1 == DictGet(assets, asset1)
              a2 == DictGet(assets, asset2)
              c1 == is_connected(aheap[a1], connection_point_1)
              c2 == is_connected(aheap[a2], connection_point_2)
          IN  IF (~c1) /\ ~(c2)
              THEN connect_new(a1, connection_point_1, a2, connection_point_2)
              ELSE IF (c1) /\ ~(c2)
              THEN connect_reuse(113, a1, connection_point_1, a2, connection_point_2)
              ELSE IF ~c1 /\ c2
              THEN connect_reuse(121, a2, connection_point_2, a1, connection_point_1)
              ELSE IF ~c1 /\ (~c2)
              THEN {Same(Raise("connect_assets", 126, "NotImplementedError"))}
              ELSE both_connected(a1, connection_point_1, a2, connection_point_2)

\* a lookup of a node among the assets
get_node_among_assets(asset_id) ==
    IF ~exists_asset(asset_id)
    THEN {Same(Raise("get_node", 177, "ValueError"))}
    ELSE {Same(Return("get_node", 178, DictGet(assets, asset_id)))}

\* Network.get_asset(asset_id)
get_asset(asset_id) ==
    IF ~exists_asset(asset_id)
    THEN {Same(Raise("get_asset", 163, "ValueError"))}
    ELSE {Same(Return("get_asset", 164, DictGet(assets, asset_id)))}

\* Network.get_node(asset_id)
get_node(asset_id) ==
    IF ~exists_node(asset_id)
    THEN {Same(Raise("get_node", 177, "ValueError"))}
    ELSE {Same(Return("get_node", 178, DictGet(nodes, asset_id)))}

\* for key in d: the keys of a dictionary in the order a loop visits them
visit_order(d) == [i \in DOMAIN d |-> d[i].key]

\* Network.remove_asset(): a method without statements
remove_asset == {Same(Return("remove_asset", 147, None))}

\* Network.disconnect_asset(): a method without statements
disconnect_asset == {Same(Return("disconnect_asset", 150, None))}

----------------------------------------------------------------------------
(* Indexing and scatter *)

\* the unknowns of the entities of the dict d, objects of heap
RECURSIVE SumUnknowns(_, _, _)
SumUnknowns(heap, d, i) ==
    IF i > Len(d) THEN 0
    ELSE heap[d[i].obj].number_of_unknowns + SumUnknowns(heap, d, i + 1)

\* the length of the global vector of unknowns
total_unknowns == SumUnknowns(aheap, assets, 1) + SumUnknowns(nheap, nodes, 1)

\* index assignment over the entities of the dict d from position i on, in
\* insertion order: each gets the running offset, which grows by its unknowns
RECURSIVE assign_from(_, _, _, _)
assign_from(heap, d, i, offset) ==
    IF i > Len(d) THEN [heap |-> heap, offset |-> offset]
    ELSE assign_from([heap EXCEPT ![d[i].obj] = set_matrix_index(@, offset)],
                     d, i + 1, offset + heap[d[i].obj].number_of_unknowns)

\* index assignment for the network: the assets, then the nodes
assign_indices ==
    LET a == assign_from(aheap, assets, 1, 0)
        n == assign_from(nheap, nodes, 1, a.offset)
    IN  {State(a.heap, n.heap, assets, nodes,
               Return("assign_indices", 0, n.offset))}

\* a scatter that reads every slice from the start of the vector
set_prev_sol_from_start(item, solution) ==
    [item EXCEPT !.prev_sol = Slice(solution, 0, item.number_of_unknowns)]

\* item.prev_sol = solution[index: index + nou]
set_prev_sol(item, solution) ==
    [item EXCEPT !.prev_sol =
        Slice(solution, item.matrix_index, item.number_of_unknowns)]

\* the loop of set_result_asset and set_result_node over the keys of d
RECURSIVE set_result_from(_, _, _, _)
set_result_from(heap, d, i, solution) ==
    IF i > Len(d) THEN heap
    ELSE set_result_from(
             [heap EXCEPT ![DictGet(d, d[i].key)] = set_prev_sol(@, solution)],
             d, i + 1, solution)

\* Network.set_result_asset(solution)
set_result_asset(solution) ==
    {State(set_result_from(aheap, assets, 1, solution), nheap, assets, nodes,
           Return("set_result_asset", 215, None))}

\* a scatter over the nodes that stops with an error after the first node
set_result_node_partial(solution) ==
    IF Len(nodes) = 0
    THEN {Same(Return("set_result_node", 226, None))}
    ELSE {State(aheap,
                set_result_from(nheap, SubSeq(nodes, 1, 1), 1, solution),
                assets, nodes, Raise("set_result_node", 226, "ValueError"))}

\* Network.set_result_node(solution)
set_result_node(solution) ==
    {State(aheap, set_result_from(nheap, nodes, 1, solution), assets, nodes,
           Return("set_result_node", 226, None))}

\* scatter of a solution over every entity: the assets, then the nodes; an
\* error of either half ends the scatter where it stands
scatter_solution(solution) ==
    UNION {IF ra.last.exc # "" THEN {ra}
           ELSE {State(ra.aheap, rn.nheap, assets, nodes, rn.last) :
                     rn \in set_result_node(solution)} :
           ra \in set_result_asset(solution)}

\* one iteration of the solver with solution the result of its linear solve:
\* the linear solve fails, which ends the iteration before the scatter, or
\* its solution is scattered
solve(solution) ==
    {Same(Raise("solve", 0, "NumericalError"))} \cup
    {[r EXCEPT !.last = [op |-> "solve", line |-> 0, ret |-> None,
                         exc |-> r.last.exc]] :
         r \in scatter_solution(solution)}

----------------------------------------------------------------------------
(* Inputs *)

\* kinds passed to add_asset; "Pump" and "pipe" are not registered
KindInputs == {"Boundary", "Pipe", "Pump", "pipe"}

\* explicit names passed to add_asset and to an asset's constructor: the
\* names in use (a name never used before acts as a uuid4() value does)
NameInputs == DictKeys(assets)

\* connection points passed to connect_assets
Points == {0, 1}

\* an id that identifies no asset of the network
MissingIds ==
    IF IDs \subseteq DictKeys(assets) THEN {} ELSE {MinId(IDs \ DictKeys(assets))}

\* asset ids passed to connect_assets: the stored ones and a missing one
AssetIdInputs == DictKeys(assets) \cup MissingIds

\* connection_point is a connection point of the asset stored under asset_id
\* (the point passed with a missing asset id is never looked at)
ValidPoint(asset_id, connection_point) ==
    IF exists_asset(asset_id)
    THEN connection_point \in DOMAIN aheap[DictGet(assets, asset_id)].connected_nodes
    ELSE connection_point = 0

\* the arguments passed to connect_assets
ConnectInputs ==
    {i \in AssetIdInputs \X Points \X AssetIdInputs \X Points :
        ValidPoint(i[1], i[2]) /\ ValidPoint(i[3], i[4])}

\* both assets exist and a point is not connected: the call connects it
Connects(asset1, cp1, asset2, cp2) ==
    IF exists_asset(asset1) /\ exists_asset(asset2)
    THEN \/ ~is_connected(aheap[DictGet(assets, asset1)], cp1)
         \/ ~is_connected(aheap[DictGet(assets, asset2)], cp2)
    ELSE FALSE

\* the vector base + 1, ..., base + len
Ramp(len, base) == [i \in 1..len |-> base + i]

\* a solver's vector is as long as the network's unknowns; the shorter one
\* is a vector that does not fit the network
Solutions == {Ramp(total_unknowns, 0), Ramp(ShortLen, 100)}

----------------------------------------------------------------------------
(* Actions *)

Step(r) ==
    /\ aheap' = r.aheap
    /\ nheap' = r.nheap
    /\ assets' = r.assets
    /\ nodes' = r.nodes
    /\ last' = r.last
    /\ UNCHANGED <<sim, pipe, asset_layer>>

\* the caller constructs an asset to hand it to add_existing_asset next
Constructed == last.op = "construct"

\* the run goes on and the caller holds no asset it has yet to add
Ready == ~Failed /\ ~Constructed

AddAsset ==
    \E asset_type \in KindInputs, name \in NameInputs \cup {None} :
        /\ Ready
        /\ KnownKind(asset_type) => Calls < MaxCalls
        /\ \E r \in add_asset(asset_type, name) : Step(r)

\* an asset constructed by the caller, as SolverPipe(name=uuid4())
ConstructAsset ==
    \E asset_type \in {"Pipe"} :
      \E name \in NameInputs \cup uuid4 :
        /\ Ready
        /\ Calls < MaxCalls
        /\ \E r \in {State(Append(aheap, Construct(asset_type, name)), nheap,
                            assets, nodes,
                            Return("construct", 35, None))} :
               Step(r)

\* the caller binds a point of an asset of its own to a Node of its own:
\* asset.connect_node(node=Node(name=uuid4()), connection_point=cp)
ConnectOwnNode ==
    \E a \in DOMAIN aheap \ NetAssetObjs :
      \E cp \in DOMAIN aheap[a].connected_nodes, name \in uuid4 :
        /\ ~Failed
        /\ Calls < MaxCalls
        /\ ~is_connected(aheap[a], cp)
        /\ \E r \in {State([aheap EXCEPT ![a] = connect_node(@, cp, Len(nheap) + 1)],
                            Append(nheap, Node(name)), assets, nodes,
                            Return("connect_node", 48, None))} :
               Step(r)

AddExistingAsset ==
    \E asset \in DOMAIN aheap :
        /\ ~Failed
        /\ \E r \in add_existing_asset(asset) : Step(r)

ConnectAssets ==
    \E i \in ConnectInputs :
        /\ Ready
        /\ Connects(i[1], i[2], i[3], i[4]) => Calls < MaxCalls
        /\ \E r \in connect_assets(i[1], i[2], i[3], i[4]) : Step(r)

\* building a network and asking whether it is connected
Next ==
    \/ AddAsset
    \/ ConstructAsset
    \/ AddExistingAsset
    \/ ConnectAssets

Spec == Init /\ [][Next]_vars

RemoveAsset ==
    /\ Ready
    /\ \E r \in remove_asset : Step(r)

DisconnectAsset ==
    /\ Ready
    /\ \E r \in disconnect_asset : Step(r)

\* every operation of a network that adds, connects or removes
NextLifetime ==
    \/ AddAsset
    \/ ConnectAssets
    \/ RemoveAsset
    \/ DisconnectAsset

SpecLifetime == Init /\ [][NextLifetime]_vars

----------------------------------------------------------------------------
(* Solving: a network is built from registered kinds and stored assets,   *)
(* its entities are indexed and solutions are scattered over them.         *)

\* the topology is fixed before the first index assignment or scatter
Building == last.op \in {"__init__", "add_asset", "connect_assets"}

BuildAsset ==
    \E asset_type \in KindInputs \cap str_to_class_dict :
      \E name \in NameInputs \cup {None} :
        /\ Building
        /\ Calls < MaxBuildCalls
        /\ \E r \in add_asset(asset_type, name) : Step(r)

BuildConnection ==
    \E i \in ConnectInputs :
        /\ Building
        /\ Connects(i[1], i[2], i[3], i[4])
        /\ Calls < MaxBuildCalls
        /\ \E r \in connect_assets(i[1], i[2], i[3], i[4]) : Step(r)

AssignIndices ==
    \E r \in assign_indices : Step(r)

SetResultAsset ==
    \E solution \in Solutions :
        \E r \in set_result_asset(solution) : Step(r)

SetResultNode ==
    \E solution \in Solutions :
        \E r \in set_result_node(solution) : Step(r)

\* an iteration of the solver on the network
SolveIteration ==
    \E solution \in Solutions :
        \E r \in solve(solution) : Step(r)

NextSolve ==
    \/ BuildAsset
    \/ BuildConnection
    \/ AssignIndices
    \/ SetResultAsset
    \/ SetResultNode
    \/ SolveIteration

SpecSolve == Init /\ [][NextSolve]_vars

----------------------------------------------------------------------------
(* Lookups in a network *)

GetAsset ==
    \E asset_id \in IDs :
        /\ ~Failed
        /\ \E r \in get_asset(asset_id) : Step(r)

GetNode ==
    \E asset_id \in IDs :
        /\ ~Failed
        /\ \E r \in get_node(asset_id) : Step(r)

NextLookup ==
    \/ BuildAsset
    \/ BuildConnection
    \/ GetAsset
    \/ GetNode

SpecLookup == Init /\ [][NextLookup]_vars

----------------------------------------------------------------------------
(* Networks whose generated ids take any value *)

\* add_asset with a name no object has: any value uuid4() can return
AddAssetAnyId ==
    \E asset_type \in KindInputs \cap str_to_class_dict :
      \E name \in IDs \ UsedIds :
        /\ Building
        /\ Calls < MaxBuildCalls
        /\ \E r \in add_asset(asset_type, name) : Step(r)

NextOrder ==
    \/ AddAssetAnyId
    \/ BuildConnection

SpecOrder == Init /\ [][NextOrder]_vars

----------------------------------------------------------------------------
(* Equations of a boundary *)

\* IndexEnum.pressure: the place of the pressure among the unknowns of a
\* connection point (discharge, pressure, internal energy)
IndexEnum_pressure == 1

\* a prescribed-pressure equation on the first unknown of the boundary
add_pressure_equation_at_start(self) ==
    [indices |-> <<self.matrix_index>>,
     coefficients |-> <<1>>,
     rhs |-> self.initial_pressure]

\* BaseBoundary.add_pressure_equation: a new EquationObject
add_pressure_equation(self) ==
    [indices |-> <<self.matrix_index + IndexEnum_pressure>>,
     coefficients |-> <<1>>,
     rhs |-> self.initial_pressure]

\* BaseAsset.add_thermal_equations(connection_point): a row made from the
\* indices of the asset and of the node at the point and from prev_sol
add_thermal_equations(self, node, connection_point) ==
    [equation |-> "thermal balance",
     connection_point |-> connection_point,
     matrix_index |-> self.matrix_index,
     node_index |-> node.matrix_index,
     prev_sol |-> self.prev_sol]

\* BaseAsset.add_press_to_node_equation(connection_point): a row made from
\* the indices of the asset and of the node at the point
add_press_to_node_equation(self, node, connection_point) ==
    [equation |-> "pressure balance",
     connection_point |-> connection_point,
     matrix_index |-> self.matrix_index,
     node_index |-> node.matrix_index]

\* a collection of equations that also resets the boundary's prev_sol
get_equations_resetting(b) ==
    LET self == aheap[b]
        node == nheap[get_connected_node(self, 0)]
    IN  {State([aheap EXCEPT ![b].prev_sol = [i \in 1..3 |-> 0]], nheap,
               assets, nodes,
               Return("get_equations", 64,
                      <<add_pressure_equation(self),
                        add_thermal_equations(self, node, 0),
                        add_press_to_node_equation(self, node, 0)>>))}

\* a collection that puts the thermal balance before the prescribed pressure
get_equations_thermal_first(b) ==
    LET self == aheap[b]
        node == nheap[get_connected_node(self, 0)]
    IN  {Same(Return("get_equations", 64,
                     <<add_thermal_equations(self, node, 0),
                       add_pressure_equation(self),
                       add_press_to_node_equation(self, node, 0)>>))}

\* BaseBoundary.get_equations() of the boundary object b, whose connection
\* point is connected
get_equations(b) ==
    LET self == aheap[b]
        node == nheap[get_connected_node(self, 0)]
    IN  {Same(Return("get_equations", 64,
                     <<add_pressure_equation(self),
                       add_thermal_equations(self, node, 0),
                       add_press_to_node_equation(self, node, 0)>>))}

\* the boundaries of the network whose connection point is connected
Boundaries ==
    {b \in NetAssetObjs : aheap[b].kind = "Boundary" /\ is_connected(aheap[b], 0)}

\* the pressures a caller configures a boundary with
Pressures == {10000, 20000}

\* the caller configures a boundary: boundary.initial_pressure = pressure
SetInitialPressure ==
    \E b \in Boundaries, pressure \in Pressures :
        \E r \in {State([aheap EXCEPT ![b].initial_pressure = pressure], nheap,
                         assets, nodes,
                         Return("initial_pressure", 31, None))} :
            Step(r)

GetEquations ==
    \E b \in Boundaries :
        \E r \in get_equations(b) : Step(r)

NextAssemble ==
    \/ BuildAsset
    \/ BuildConnection
    \/ AssignIndices
    \/ SolveIteration
    \/ SetInitialPressure
    \/ GetEquations

SpecAssemble == Init /\ [][NextAssemble]_vars

----------------------------------------------------------------------------
(* Heat transport of a pipe. A pipe has six unknowns, three for each of    *)
(* its connection points; its length is cut into _grid_size cells.         *)

\* IndexEnum.discharge and IndexEnum.internal_energy: the places of the
\* discharge and of the internal energy among the unknowns of a point
IndexEnum_discharge == 0
IndexEnum_internal_energy == 2
\* the number of unknowns of a connection point
NUMBER_CORE_QUANTITIES == 3
\* the number of cells of the internal grid
GridSize == MaxGridSize
\* the temperature around the pipe
ExternalTemperature == 2

\* prev_sol[index] on a Python list
At(prev_sol, index) == prev_sol[index + 1]

Abs(x) == IF x < 0 THEN -x ELSE x

\* fluid_props.get_t: the temperature of a fluid of the given internal energy
get_t(internal_energy) == internal_energy \div 2

\* the internal energy a cell is left with by fluid that enters it with the
\* given internal energy: the cell loses heat at the rate
\* alpha_value * surface_area * (cell_temperature - external_temperature),
\* taken from a mass flow of the given size
CellEnergy(internal_energy, flow) ==
    internal_energy - ((2 * (get_t(internal_energy) - ExternalTemperature)) \div flow)

\* the internal energy of the k-th cell in the direction of the flow
RECURSIVE Advect(_, _, _)
Advect(inlet, flow, k) ==
    IF k = 0 THEN inlet ELSE CellEnergy(Advect(inlet, flow, k - 1), flow)

\* a heat transport that takes the inlet at connection point 0 whatever the
\* direction of the flow
update_heat_supplied_one_inlet(self) ==
    LET discharge == At(self.prev_sol, IndexEnum_discharge)
        inlet == At(self.prev_sol, IndexEnum_internal_energy)
    IN  [self EXCEPT
            !._internal_energy_grid =
                [k \in 1..GridSize |->
                    Advect(inlet, Abs(discharge),
                           IF discharge > 0 THEN k ELSE GridSize - k + 1)],
            !.heat_supplied =
                Abs(discharge) * (Advect(inlet, Abs(discharge), GridSize) - inlet)]

\* SolverPipe.update_heat_supplied for a discharge that is not 0: the
\* internal energy enters at connection point 0 and leaves the last cell
\* when the discharge is positive, enters at connection point 1 and leaves
\* the first cell when it is negative
update_heat_supplied(self) ==
    LET discharge == At(self.prev_sol, IndexEnum_discharge)
        inlet == IF discharge > 0
                 THEN At(self.prev_sol, IndexEnum_internal_energy)
                 ELSE At(self.prev_sol,
                         IndexEnum_internal_energy + NUMBER_CORE_QUANTITIES)
    IN  [self EXCEPT
            !._internal_energy_grid =
                [k \in 1..GridSize |->
                    Advect(inlet, Abs(discharge),
                           IF discharge > 0 THEN k ELSE GridSize - k + 1)],
            !.heat_supplied =
                Abs(discharge) * (Advect(inlet, Abs(discharge), GridSize) - inlet)]

\* the discharges and the internal energies a caller gives a pipe
Discharges == (-MaxDischarge..MaxDischarge) \ {0}
Energies == {40, 57, 80}

\* self.asset.prev_sol[index] = value, for the discharge and for the
\* internal energy of either connection point
SetPrevSol ==
    \/ \E d \in Discharges :
          /\ pipe' = [pipe EXCEPT !.prev_sol[IndexEnum_discharge + 1] = d]
          /\ UNCHANGED <<net, last, sim, asset_layer>>
    \/ \E e \in Energies, cp \in Points :
          /\ pipe' = [pipe EXCEPT
                 !.prev_sol[IndexEnum_internal_energy
                            + cp * NUMBER_CORE_QUANTITIES + 1] = e]
          /\ UNCHANGED <<net, last, sim, asset_layer>>

\* self.asset.update_heat_supplied()
UpdateHeatSupplied ==
    /\ At(pipe.prev_sol, IndexEnum_discharge) # 0
    /\ pipe' = update_heat_supplied(pipe)
    /\ UNCHANGED <<net, last, sim, asset_layer>>

NextPipe ==
    \/ SetPrevSol
    \/ UpdateHeatSupplied

SpecPipe == Init /\ [][NextPipe]_vars

----------------------------------------------------------------------------
(* NetworkSimulation.run: the loop over the timesteps of a configuration.  *)
(* The controller, the heat network and the configuration are objects of   *)
(* the caller: a call of one of them is an entry of sim.events.            *)

\* a range that takes its stop value in
range_closed(start, stop, step) ==
    [k \in 1..((stop - start + step) \div step) |-> start + (k - 1) * step]

\* range(start, stop, step) for a positive step, as the sequence of its values
range(start, stop, step) ==
    IF stop <= start THEN << >>
    ELSE [k \in 1..((stop - start + step - 1) \div step) |->
              start + (k - 1) * step]

\* the configurations passed to run: start, stop and a positive timestep
Configs == [start : 0..1, stop : 0..MaxStop, timestep : 1..2]

\* the values controller.run_time_step returns
ControllerInputs == {10, 20}

\* the times the for loop of a run goes through
Times == range(sim.config.start, sim.config.stop, sim.config.timestep)

\* line 38: self.config = config
Run ==
    \E config \in Configs :
        /\ sim.pc = 0
        /\ sim' = [sim EXCEPT !.pc = 41, !.config = config]
        /\ UNCHANGED <<net, last, pipe, asset_layer>>

\* line 41: for time in range(start, stop, timestep)
ForTime ==
    /\ sim.pc = 41
    /\ IF sim.taken < Len(Times)
       THEN sim' = [sim EXCEPT !.pc = 42, !.time = Times[sim.taken + 1],
                               !.taken = @ + 1]
       ELSE sim' = [sim EXCEPT !.pc = 50]
    /\ UNCHANGED <<net, last, pipe, asset_layer>>

\* line 42: not_converged = True
SetNotConverged ==
    /\ sim.pc = 42
    /\ sim' = [sim EXCEPT !.pc = 43, !.not_converged = TRUE]
    /\ UNCHANGED <<net, last, pipe, asset_layer>>

\* line 43: controller_input = self.controller.run_time_step(time)
ControllerRunTimeStep ==
    \E input \in ControllerInputs :
        /\ sim.pc = 43
        /\ sim' = [sim EXCEPT !.pc = 44, !.controller_input = input,
                              !.events = Append(@, [call |-> "controller",
                                                    time |-> sim.time,
                                                    input |-> input])]
        /\ UNCHANGED <<net, last, pipe, asset_layer>>

\* line 44: while not_converged
WhileNotConverged ==
    /\ sim.pc = 44
    /\ sim' = [sim EXCEPT !.pc = IF sim.not_converged THEN 45 ELSE 49]
    /\ UNCHANGED <<net, last, pipe, asset_layer>>

\* a loop body that leaves not_converged as it is
ClearNotConverged_never ==
    /\ sim.pc = 45
    /\ sim' = [sim EXCEPT !.pc = 48]
    /\ UNCHANGED <<net, last, pipe, asset_layer>>

\* line 45: not_converged = False
ClearNotConverged ==
    /\ sim.pc = 45
    /\ sim' = [sim EXCEPT !.pc = 48, !.not_converged = FALSE]
    /\ UNCHANGED <<net, last, pipe, asset_layer>>

\* line 48: self.network.run_time_step(time, controller_input); the iterate
\* it leaves meets the convergence tolerance or does not, which run is not told
NetworkRunTimeStep ==
    \E met \in BOOLEAN :
        /\ sim.pc = 48
        /\ sim' = [sim EXCEPT !.pc = 44, !.met = met,
                              !.events = Append(@, [call |-> "network",
                                                    time |-> sim.time,
                                                    input |-> sim.controller_input])]
        /\ UNCHANGED <<net, last, pipe, asset_layer>>

\* line 49: self.network.store_output()
StoreOutput ==
    /\ sim.pc = 49
    /\ sim' = [sim EXCEPT !.pc = 41,
                          !.events = Append(@, [call |-> "store",
                                                time |-> sim.time,
                                                input |-> None])]
    /\ UNCHANGED <<net, last, pipe, asset_layer>>

NextRun ==
    \/ Run
    \/ ForTime
    \/ SetNotConverged
    \/ ControllerRunTimeStep
    \/ WhileNotConverged
    \/ ClearNotConverged
    \/ NetworkRunTimeStep
    \/ StoreOutput

SpecRun == Init /\ [][NextRun]_vars

\* a run whose statements are executed one after the other and whose calls
\* of the controller and of the network return: a step that can be taken is
\* taken
SpecRunFair == SpecRun /\ WF_vars(NextRun)

----------------------------------------------------------------------------
(* Vocabulary of the properties *)

\* the outcome r of a call left the network as it was
SameNet(r) ==
    /\ r.aheap = aheap
    /\ r.nheap = nheap
    /\ r.assets = assets
    /\ r.nodes = nodes

\* the node bound to the point cp of the asset stored under id (None: no node)
BindingOf(id, cp) == aheap[DictGet(assets, id)].connected_nodes[cp]

\* the outcome r changed no binding, except those of the (asset, point) pairs
\* in except, and nothing else of any asset object
OtherBindingsKept(r, except) ==
    /\ DOMAIN r.aheap = DOMAIN aheap
    /\ \A o \in DOMAIN aheap :
        /\ [r.aheap[o] EXCEPT !.connected_nodes = aheap[o].connected_nodes] = aheap[o]
        /\ \A p \in DOMAIN aheap[o].connected_nodes :
              <<o, p>> \notin except =>
                  r.aheap[o].connected_nodes[p] = aheap[o].connected_nodes[p]

\* both asset ids of the connect_assets arguments i are stored
BothExist(i) == exists_asset(i[1]) /\ exists_asset(i[3])

----------------------------------------------------------------------------
(* Properties of the construction operations.  A property of a call says   *)
(* what every outcome of the call is, in every state in which the run goes *)
(* on and for every argument the actions pass.                             *)

\* C1: connect_assets on two connection points that are both connected, to
\* different nodes, raises an exception and leaves the network unchanged: no
\* node is created, removed or merged and every binding keeps its value.
C1_BothConnectedRejected ==
    ~Failed => \A i \in ConnectInputs :
        BothExist(i) =>
            LET n1 == BindingOf(i[1], i[2])
                n2 == BindingOf(i[3], i[4])
                out == connect_assets(i[1], i[2], i[3], i[4])
            IN  (n1 # None /\ n2 # None /\ n1 # n2) =>
                    /\ out # {}
                    /\ \A r \in out : r.last.exc # "" /\ SameNet(r)

\* a connect_assets call has just failed in its last branch, in a network
\* that has two connected points on different nodes
C1_Witness ==
    /\ last.op = "connect_assets" /\ last.line = 128
    /\ last.exc = "NotImplementedError"
    /\ \E i \in ConnectInputs :
          /\ BothExist(i)
          /\ BindingOf(i[1], i[2]) # None
          /\ BindingOf(i[3], i[4]) # None
          /\ BindingOf(i[1], i[2]) # BindingOf(i[3], i[4])

\* C2: connect_assets on two stored assets whose given points are both
\* unconnected makes exactly one new node, stores it in the network's nodes
\* under the id it returns, binds both points to it and registers both
\* (asset, point) pairs on it; no other node or binding changes.
C2_NewNodeJoinsBoth ==
    ~Failed => \A i \in ConnectInputs :
        BothExist(i) =>
            LET o1 == DictGet(assets, i[1])
                o2 == DictGet(assets, i[3])
                n == Len(nheap) + 1
            IN  (BindingOf(i[1], i[2]) = None /\ BindingOf(i[3], i[4]) = None) =>
                  \A r \in connect_assets(i[1], i[2], i[3], i[4]) :
                    /\ r.last.exc = ""
                    /\ Len(r.nheap) = n
                    /\ SubSeq(r.nheap, 1, Len(nheap)) = nheap
                    /\ ~DictHas(nodes, r.last.ret)
                    /\ r.nodes = Append(nodes, [key |-> r.last.ret, obj |-> n])
                    /\ r.nheap[n].name = r.last.ret
                    /\ r.aheap[o1].connected_nodes[i[2]] = n
                    /\ r.aheap[o2].connected_nodes[i[4]] = n
                    /\ Len(r.nheap[n].connected_assets) = 2
                    /\ Range(r.nheap[n].connected_assets) = {<<o1, i[2]>>, <<o2, i[4]>>}
                    /\ r.assets = assets
                    /\ OtherBindingsKept(r, {<<o1, i[2]>>, <<o2, i[4]>>})

\* a connect_assets call has just made a node between two different assets,
\* next to a node that was there before
C2_Witness ==
    /\ last.op = "connect_assets" /\ last.line = 105
    /\ Len(nodes) = 2
    /\ DictHas(nodes, last.ret)
    /\ LET new == nheap[DictGet(nodes, last.ret)].connected_assets
       IN  Len(new) = 2 /\ new[1][1] # new[2][1]

\* C3: connect_assets with exactly one of the two points connected reuses the
\* node of that point: no node is made or stored, the other point becomes
\* bound to that node, the binding that was there stays, and the id returned
\* is the name of that node; whichever argument is the connected one.
C3_OneConnectedReusesNode ==
    ~Failed => \A i \in ConnectInputs :
        BothExist(i) =>
            LET o1 == DictGet(assets, i[1])
                o2 == DictGet(assets, i[3])
                n1 == BindingOf(i[1], i[2])
                n2 == BindingOf(i[3], i[4])
                node == IF n1 # None THEN n1 ELSE n2
                free == IF n1 # None THEN <<o2, i[4]>> ELSE <<o1, i[2]>>
            IN  ((n1 # None) # (n2 # None)) =>
                  LET out == connect_assets(i[1], i[2], i[3], i[4])
                  IN  /\ out # {}
                      /\ \A r \in out :
                          /\ r.last.exc = ""
                          /\ r.nodes = nodes
                          /\ Len(r.nheap) = Len(nheap)
                          /\ r.aheap[o1].connected_nodes[i[2]] = node
                          /\ r.aheap[o2].connected_nodes[i[4]] = node
                          /\ r.last.ret = nheap[node].name
                          /\ r.assets = assets
                          /\ OtherBindingsKept(r, {free})

\* a connect_assets call has just returned from the branch in which the
\* second asset's point was the connected one
C3_Witness ==
    /\ last.op = "connect_assets" /\ last.line = 121
    /\ DictHas(nodes, last.ret)
    /\ Len(nheap[DictGet(nodes, last.ret)].connected_assets) = 3

\* every connection point of every stored asset is bound to a node
AllPointsBound ==
    \A i \in DOMAIN assets :
        \A p \in 0..(aheap[assets[i].obj].number_of_connection_point - 1) :
            aheap[assets[i].obj].connected_nodes[p] # None

\* every stored node has an asset registered on it
AllNodesHaveAsset ==
    \A i \in DOMAIN nodes : nheap[nodes[i].obj].connected_assets # << >>

\* C4: check_connectivity() is true if and only if every stored asset has all
\* its connection points bound and every stored node has an asset; so it is
\* false while an added asset still has an unconnected point.
C4_ConnectivityIff ==
    /\ check_connectivity <=> (AllPointsBound /\ AllNodesHaveAsset)
    /\ ~AllPointsBound => ~check_connectivity

\* a network of two assets and a node for which check_connectivity() is true
C4_Witness ==
    /\ check_connectivity
    /\ Len(assets) >= 2
    /\ Len(nodes) >= 1
    /\ ~Failed

\* C5: add_asset with a kind other than Boundary, Asset, Fall, Production and
\* Pipe raises an exception, and assets and nodes are what they were.
C5_UnknownKindRejected ==
    ~Failed => \A asset_type \in KindInputs, name \in NameInputs \cup {None} :
        asset_type \notin {"Boundary", "Asset", "Fall", "Production", "Pipe"} =>
            LET out == add_asset(asset_type, name)
            IN  /\ out # {}
                /\ \A r \in out : r.last.exc # "" /\ SameNet(r)

\* add_asset has just raised for its kind, in a network that stores an asset
C5_Witness ==
    /\ last.op = "add_asset" /\ last.line = 57 /\ last.exc = "ValueError"
    /\ Len(assets) >= 1

\* C6: add_existing_asset with an asset whose name is stored already raises
\* an exception and changes nothing; with a name that is not stored it
\* stores the asset under its name, after the others, and returns the name.
C6_AddExistingAsset ==
    ~Failed => \A asset \in DOMAIN aheap :
        LET name == aheap[asset].name
            out == add_existing_asset(asset)
        IN  /\ out # {}
            /\ \A r \in out :
                IF \E i \in DOMAIN assets : assets[i].key = name
                THEN r.last.exc # "" /\ SameNet(r)
                ELSE /\ r.last.exc = ""
                     /\ r.last.ret = name
                     /\ r.assets = Append(assets, [key |-> name, obj |-> asset])
                     /\ r.aheap = aheap /\ r.nheap = nheap /\ r.nodes = nodes

\* add_existing_asset has just raised for an asset the caller constructed
\* under a name that is stored for another asset
C6_Witness ==
    /\ last.op = "add_existing_asset" /\ last.line = 72
    /\ last.exc = "ValueError"
    /\ \E o \in DOMAIN aheap \ NetAssetObjs :
          \E i \in DOMAIN assets :
              assets[i].key = aheap[o].name /\ assets[i].obj # o

\* C7 as claimed: add_asset with an explicit name that is stored already
\* raises an exception and keeps the stored asset and its bindings.
C7_DuplicateNameRejected ==
    [][\A asset_type \in KindInputs \cap str_to_class_dict :
         \A name \in NameInputs :
           (\E r \in add_asset(asset_type, name) : Step(r)) =>
               /\ last'.exc # ""
               /\ UNCHANGED net]_vars

\* C8: connect_assets with an asset id that is not stored, as first or as
\* second argument, raises an exception and changes nothing: no node is
\* made and no connection point is bound.
C8_MissingAssetRejected ==
    ~Failed => \A i \in ConnectInputs :
        ~BothExist(i) =>
            LET out == connect_assets(i[1], i[2], i[3], i[4])
            IN  /\ out # {}
                /\ \A r \in out : r.last.exc # "" /\ SameNet(r)

\* connect_assets has just raised for its second asset id, the first one
\* being stored
C8_Witness ==
    /\ last.op = "connect_assets" /\ last.line = 94 /\ last.exc = "ValueError"
    /\ Len(assets) >= 1

----------------------------------------------------------------------------
(* Properties of indexing and scatter *)

\* the entities of the network
Entities ==
    {<<"asset", o>> : o \in NetAssetObjs} \cup {<<"node", n>> : n \in NetNodeObjs}

EntityOf(e) == IF e[1] = "asset" THEN aheap[e[2]] ELSE nheap[e[2]]

\* [matrix_index, matrix_index + number_of_unknowns)
IndexRange(e) ==
    EntityOf(e).matrix_index ..
        (EntityOf(e).matrix_index + EntityOf(e).number_of_unknowns - 1)

\* C9: after index assignment the index ranges of the network's entities are
\* pairwise disjoint and their union is [0, total_unknowns).
C9_IndexRangesCover ==
    last.op = "assign_indices" =>
        /\ \A e1 \in Entities, e2 \in Entities :
              e1 # e2 => IndexRange(e1) \cap IndexRange(e2) = {}
        /\ UNION {IndexRange(e) : e \in Entities} = 0..(total_unknowns - 1)
        /\ last.ret = total_unknowns

\* indices have just been assigned in a network of two assets and a node
C9_Witness ==
    /\ last.op = "assign_indices"
    /\ Len(assets) >= 2
    /\ Len(nodes) >= 1
    /\ \E i \in DOMAIN nodes : nheap[nodes[i].obj].matrix_index > 0

\* prev is solution[index : index + nou] of a Python list: the elements at
\* the 0-based positions index, ..., index + nou - 1 that the list has
IsSlice(prev, solution, index, nou) ==
    /\ Len(prev) = IF Len(solution) <= index THEN 0
                   ELSE Min(index + nou, Len(solution)) - index
    /\ \A k \in 1..Len(prev) : prev[k] = solution[index + k]

\* the heap after differs from the heap before in no more than the prev_sol
\* of the objects in objs, each of which holds its slice of the solution
Scattered(before, after, objs, solution) ==
    /\ DOMAIN after = DOMAIN before
    /\ \A o \in DOMAIN before :
          IF o \in objs
          THEN /\ IsSlice(after[o].prev_sol, solution, before[o].matrix_index,
                          before[o].number_of_unknowns)
               /\ [after[o] EXCEPT !.prev_sol = before[o].prev_sol] = before[o]
          ELSE after[o] = before[o]

\* C10: set_result_asset sets the prev_sol of every asset of the network to
\* solution[matrix_index : matrix_index + number_of_unknowns] and leaves the
\* nodes as they are; set_result_node does so for every node and leaves the
\* assets as they are; neither changes matrix_index, number_of_unknowns or
\* the topology.
C10_ScatterSetsSlices ==
    ~Failed => \A solution \in Solutions :
        /\ set_result_asset(solution) # {}
        /\ \A r \in set_result_asset(solution) :
              /\ r.last.exc = ""
              /\ Scattered(aheap, r.aheap, NetAssetObjs, solution)
              /\ r.nheap = nheap /\ r.assets = assets /\ r.nodes = nodes
        /\ set_result_node(solution) # {}
        /\ \A r \in set_result_node(solution) :
              /\ r.last.exc = ""
              /\ Scattered(nheap, r.nheap, NetNodeObjs, solution)
              /\ r.aheap = aheap /\ r.assets = assets /\ r.nodes = nodes

\* a solution has just been scattered over the nodes, after one over the
\* assets, in an indexed network: an asset and a node whose indices are not 0
\* hold the values found at their indices
C10_Witness ==
    /\ last.op = "set_result_node"
    /\ \E i \in DOMAIN nodes :
          LET node == nheap[nodes[i].obj]
          IN  /\ node.matrix_index > 0
              /\ Len(node.prev_sol) = 3
              /\ node.prev_sol[1] = node.matrix_index + 1
    /\ \E i \in DOMAIN assets :
          LET asset == aheap[assets[i].obj]
          IN  /\ asset.matrix_index > 0
              /\ Len(asset.prev_sol) = asset.number_of_unknowns
              /\ asset.prev_sol[1] = asset.matrix_index + 1

C12_ConvergedOnlyIfToleranceMet ==
    sim.pc = 49 => sim.met

\* the expected call at position j of the events of a run
ExpectedCall(j) == <<"controller", "network", "store">>[((j - 1) % 3) + 1]

\* C13: the calls a run has made are, for the times start, start + timestep,
\* ... below stop in increasing order, the controller's run_time_step(t),
\* then the network's run_time_step(t, input) with the input that call of
\* the controller returned, then one store_output; a run that has returned
\* has made these three calls for every such time.
C13_SequentialTimesteps ==
    sim.pc # 0 =>
        LET c == sim.config
            ts == {t \in c.start..(c.stop - 1) : (t - c.start) % c.timestep = 0}
        IN  /\ \A j \in DOMAIN sim.events :
                  LET e == sim.events[j]
                      t == c.start + ((j - 1) \div 3) * c.timestep
                  IN  /\ t < c.stop
                      /\ e.time = t
                      /\ e.call = ExpectedCall(j)
                      /\ e.call = "network" => e.input = sim.events[j - 1].input
            /\ sim.pc = 50 => Len(sim.events) = 3 * Cardinality(ts)

\* a run over more than one timestep, with a timestep larger than one and a
\* stop that is not one of its times, has returned
C13_Witness ==
    /\ sim.pc = 50
    /\ sim.config.timestep = 2
    /\ (sim.config.stop - sim.config.start) % 2 = 1
    /\ Len(sim.events) >= 6
    /\ sim.events[2].input # sim.events[5].input

C15_PressureEquationRow ==
    \A b \in Boundaries :
        LET self == aheap[b]
            row == add_pressure_equation(self)
        IN  /\ row.indices = <<self.matrix_index + IndexEnum_pressure>>
            /\ row.indices[1] >= self.matrix_index
            /\ row.indices[1] < self.matrix_index + self.number_of_unknowns
            /\ row.coefficients = <<1>>
            /\ row.rhs = self.initial_pressure
            /\ \A r \in get_equations(b) : r.last.ret[1] = row

\* get_equations has just returned the rows of a boundary whose index is
\* not 0 and whose pressure is not the initial one
C15_Witness ==
    /\ last.op = "get_equations"
    /\ \E b \in Boundaries :
          /\ aheap[b].matrix_index > 0
          /\ aheap[b].initial_pressure = 20000
          /\ last.ret[1].indices = <<aheap[b].matrix_index + 1>>
          /\ last.ret[1].rhs = 20000

\* C16 as claimed: no step of a network takes an asset or a node out of it
\* or puts another object in its place, and no step undoes the binding of a
\* connection point of a stored asset.
C16_NothingDestroyed ==
    [][/\ \A i \in DOMAIN assets :
             i \in DOMAIN assets' /\ assets'[i] = assets[i]
       /\ \A i \in DOMAIN nodes :
             i \in DOMAIN nodes' /\ nodes'[i] = nodes[i]
       /\ \A i \in DOMAIN assets :
             \A cp \in DOMAIN aheap[assets[i].obj].connected_nodes :
                 BindingOf(assets[i].key, cp) # None =>
                     BindingOf(assets[i].key, cp)' = BindingOf(assets[i].key, cp)
      ]_vars

Flowing(d, e, cp) ==
    [pipe EXCEPT !.prev_sol[IndexEnum_discharge + 1] = d,
                 !.prev_sol[IndexEnum_internal_energy
                            + cp * NUMBER_CORE_QUANTITIES + 1] = e]

\* C19: for a discharge d > 0 with the inlet internal energy at connection
\* point 0, and the discharge -d with the same internal energy at
\* connection point 1, update_heat_supplied gives the same heat_supplied
\* and the same exit internal energy, in the last cell of the grid for d
\* and in the first cell for -d.
C19_HeatSuppliedSymmetric ==
    \A d \in 1..MaxDischarge, e \in Energies :
        LET forward == update_heat_supplied(Flowing(d, e, 0))
            backward == update_heat_supplied(Flowing(-d, e, 1))
        IN  /\ forward.heat_supplied = backward.heat_supplied
            /\ forward._internal_energy_grid[GridSize]
                   = backward._internal_energy_grid[1]
            /\ \A k \in 1..GridSize :
                   forward._internal_energy_grid[k]
                       = backward._internal_energy_grid[GridSize - k + 1]

\* update_heat_supplied has run on a pipe with a negative discharge whose
\* two connection points hold different internal energies: the pipe has
\* lost heat and the first cell of its grid is the coldest
C19_Witness ==
    /\ At(pipe.prev_sol, IndexEnum_discharge) < 0
    /\ At(pipe.prev_sol, IndexEnum_internal_energy)
           # At(pipe.prev_sol, IndexEnum_internal_energy + NUMBER_CORE_QUANTITIES)
    /\ pipe = update_heat_supplied(pipe)
    /\ pipe.heat_supplied < 0
    /\ pipe._internal_energy_grid[1] < pipe._internal_energy_grid[GridSize]

\* C20: get_asset(id) returns the asset stored under id when id is a key of
\* the assets, which is when exists_asset(id) is true, and raises an error
\* otherwise; get_node(id) does so with the nodes and exists_node; neither
\* changes the network.
C20_LookupsMatchExists ==
    ~Failed => \A id \in IDs :
        /\ exists_asset(id) <=> (\E i \in DOMAIN assets : assets[i].key = id)
        /\ exists_node(id) <=> (\E i \in DOMAIN nodes : nodes[i].key = id)
        /\ get_asset(id) # {}
        /\ \A r \in get_asset(id) :
              /\ SameNet(r)
              /\ IF \E i \in DOMAIN assets : assets[i].key = id
                 THEN /\ r.last.exc = ""
                      /\ \E i \in DOMAIN assets :
                            assets[i].key = id /\ assets[i].obj = r.last.ret
                      /\ aheap[r.last.ret].name = id
                 ELSE r.last.exc # ""
        /\ get_node(id) # {}
        /\ \A r \in get_node(id) :
              /\ SameNet(r)
              /\ IF \E i \in DOMAIN nodes : nodes[i].key = id
                 THEN /\ r.last.exc = ""
                      /\ \E i \in DOMAIN nodes :
                            nodes[i].key = id /\ nodes[i].obj = r.last.ret
                      /\ nheap[r.last.ret].name = id
                 ELSE r.last.exc # ""

\* a network with two assets and a node in which get_node has just failed
\* on the id of an asset
C20_Witness ==
    /\ last.op = "get_node" /\ last.exc # ""
    /\ Len(assets) >= 2
    /\ Len(nodes) >= 1
    /\ \E id \in IDs : exists_asset(id) /\ ~exists_node(id)

\* the calls of network.run_time_step a run has made for the time t
NetworkStepsAt(t) ==
    {j \in DOMAIN sim.events :
        sim.events[j].call = "network" /\ sim.events[j].time = t}

\* C21: for no time does a run call network.run_time_step more than once,
\* it has called it once for every time whose output it has stored, and a
\* run that has been called returns.
C21_RunTerminates ==
    /\ [](sim.pc # 0 =>
            /\ \A t \in 0..MaxStop : Cardinality(NetworkStepsAt(t)) <= 1
            /\ \A j \in DOMAIN sim.events :
                  sim.events[j].call = "store" =>
                      Cardinality(NetworkStepsAt(sim.events[j].time)) = 1)
    /\ (sim.pc = 41 ~> sim.pc = 50)

\* a run over three timesteps or more, with start below stop, has returned
\* after iterates that did not meet the tolerance
C21_Witness ==
    /\ sim.pc = 50
    /\ sim.config.start < sim.config.stop
    /\ Len(sim.events) >= 9
    /\ ~sim.met

----------------------------------------------------------------------------
\* the (asset, point) pairs registered on the node object n
RegisteredOn(n) == Range(nheap[n].connected_assets)

----------------------------------------------------------------------------
\* a network that is handed assets whose points the caller has bound already
NextExisting ==
    \/ AddAsset
    \/ ConstructAsset
    \/ ConnectOwnNode
    \/ AddExistingAsset
    \/ ConnectAssets

SpecExisting == Init /\ [][NextExisting]_vars

\* C23: the id that a connect_assets call returned identifies a node stored
\* in the network: exists_node(id) is true and get_node(id) does not raise.
C23_ReturnedNodeIsStored ==
    (last.op = "connect_assets" /\ ~Failed) =>
        /\ exists_node(last.ret)
        /\ \A r \in get_node(last.ret) : r.last.exc = ""

----------------------------------------------------------------------------
\* C24: the node that a connect_assets call has created joins two distinct
\* connection points: the two pairs registered on it differ.
C24_NewNodeJoinsDistinctPoints ==
    (last.op = "connect_assets" /\ last.line = 105) =>
        LET node == nheap[DictGet(nodes, last.ret)]
        IN  /\ Len(node.connected_assets) = 2
            /\ node.connected_assets[1] # node.connected_assets[2]

----------------------------------------------------------------------------
\* C25: every node stored in the network has an asset connected to it, so
\* check_connectivity_nodes() is true in every state and check_connectivity()
\* gives what check_connectivity_assets() gives.
C25_StoredNodesConnected ==
    /\ \A i \in DOMAIN nodes : node_is_connected(nheap[nodes[i].obj])
    /\ check_connectivity_nodes
    /\ check_connectivity <=> check_connectivity_assets

\* two nodes are stored and an asset of the network has an unbound point
C25_Witness ==
    /\ Len(nodes) >= 2
    /\ ~check_connectivity_assets
    /\ last.op = "connect_assets"

----------------------------------------------------------------------------
\* C26: the prev_sol of every entity, stored asset or stored node, is as long
\* as the entity has unknowns, in every state: after construction and after
\* set_result_asset and set_result_node with any solution vector.
C26_PrevSolLength ==
    \A e \in Entities :
        Len(EntityOf(e).prev_sol) = EntityOf(e).number_of_unknowns

----------------------------------------------------------------------------
----------------------------------------------------------------------------
(* The assets of the pandapipes network: ProductionCluster, HeatExchanger.  *)
(* A table of the net is the sequence of its rows; the index of a row in    *)
(* a table of components made by the cluster is its position in the         *)
(* sequence.  An operation is the set of outcomes of one call: the net,     *)
(* the cluster, the exchanger and the call record.                          *)

\* the most rows the heat_exchanger table gets
MaxHeatExchangers == 2

\* asset_defaults.DEFAULT_TEMPERATURE_DIFFERENCE
DEFAULT_TEMPERATURE_DIFFERENCE == 30

\* asset_defaults.PROPERTY_TEMPERATURE_SUPPLY, _RETURN, PROPERTY_HEAT_DEMAND
PROPERTY_TEMPERATURE_SUPPLY == "temperature_supply"

PROPERTY_TEMPERATURE_RETURN == "temperature_return"

PROPERTY_HEAT_DEMAND == "heat_demand"

\* np.NaN, the default of the constructor's temperature_return
NaN == None

AState(n, c, x, l) ==
    [pandapipes_net |-> n, cluster |-> c, exchanger |-> x, last |-> l]

\* the call changed nothing
ASame(l) == AState(pandapipes_net, cluster, exchanger, l)

\* the values of utils.heat_demand_and_temperature_to_mass_flow, whose body
\* is not part of the sources: a mass flow of either sign
MassFlows == {-120, 0, 120}

\* heat_demand_and_temperature_to_mass_flow(thermal_demand, temperature_supply,
\* temperature_return, pandapipes_net): any of its values
heat_demand_and_temperature_to_mass_flow(thermal_demand, temperature_supply, temperature_return) ==
    MassFlows

\* ProductionCluster._create on the pair s = [cluster, pandapipes_net]: the
\* intermediate junction, the pump row and the valve row, once
_create(s) ==
    IF s.cluster._initialized THEN s
    ELSE LET c == s.cluster
             n == s.pandapipes_net
             junction == Append(n.junction, "intermediate_junction")
             circ_pump_mass ==
                 Append(n.circ_pump_mass,
                        [t_flow_k |-> c.temperature_supply,
                         mdot_flow_kg_per_s |-> c._controlled_mass_flow])
             flow_control ==
                 Append(n.flow_control,
                        [controlled_mdot_kg_per_s |-> c._controlled_mass_flow])
         IN  [cluster |-> [c EXCEPT !._initialized = TRUE,
                                    !._circ_pump = Len(circ_pump_mass),
                                    !._flow_control = Len(flow_control)],
              pandapipes_net |-> [n EXCEPT !.junction = junction,
                                           !.circ_pump_mass = circ_pump_mass,
                                           !.flow_control = flow_control]]

\* ProductionCluster.__init__
ProductionCluster(thermal_production_required, temperature_supply, temperature_return) ==
    LET return == IF temperature_return = NaN
                  THEN temperature_supply - DEFAULT_TEMPERATURE_DIFFERENCE
                  ELSE temperature_return
    IN  {LET s == _create(
                 [cluster |-> [made |-> TRUE,
                               temperature_supply |-> temperature_supply,
                               temperature_return |-> return,
                               _controlled_mass_flow |-> flow,
                               _initialized |-> FALSE,
                               _circ_pump |-> None,
                               _flow_control |-> None,
                               setters |-> << >>],
                  pandapipes_net |-> pandapipes_net])
         IN  AState(s.pandapipes_net, s.cluster, exchanger,
                    Return("ProductionCluster", 125, None)) :
           flow \in heat_demand_and_temperature_to_mass_flow(
                        thermal_production_required, temperature_supply, return)}

\* ProductionCluster._set_supply_temperature on the pair s
_set_supply_temperature(s, temperature_supply) ==
    [cluster |-> [s.cluster EXCEPT
                     !.temperature_supply = temperature_supply,
                     !.setters = Append(@, "_set_supply_temperature")],
     pandapipes_net |-> [s.pandapipes_net EXCEPT
                     !.circ_pump_mass[s.cluster._circ_pump].t_flow_k =
                         temperature_supply]]

\* ProductionCluster._set_return_temperature on the pair s
_set_return_temperature(s, temperature_return) ==
    [s EXCEPT !.cluster.temperature_return = temperature_return,
              !.cluster.setters = Append(@, "_set_return_temperature")]

\* ProductionCluster._set_heat_demand on the pair s: the outcomes, each the
\* pair it leaves and whether it raised
_set_heat_demand(s, heat_demand) ==
    {LET c == [s.cluster EXCEPT !._controlled_mass_flow = flow,
                                !.setters = Append(@, "_set_heat_demand")]
     IN  IF flow < 0
         THEN [cluster |-> c, pandapipes_net |-> s.pandapipes_net,
               raised |-> TRUE]
         ELSE [cluster |-> c,
               pandapipes_net |-> [s.pandapipes_net EXCEPT
                   !.circ_pump_mass[c._circ_pump].mdot_flow_kg_per_s = flow,
                   !.flow_control[c._flow_control].controlled_mdot_kg_per_s = flow],
               raised |-> FALSE] :
       flow \in heat_demand_and_temperature_to_mass_flow(
                    heat_demand, s.cluster.temperature_supply,
                    s.cluster.temperature_return)}

\* the keys that set_setpoints requires
necessary_setpoints ==
    {PROPERTY_TEMPERATURE_SUPPLY, PROPERTY_TEMPERATURE_RETURN, PROPERTY_HEAT_DEMAND}

\* a check that is content with the two temperatures
HasNecessary_temperatures(setpoints) ==
    {PROPERTY_TEMPERATURE_SUPPLY, PROPERTY_TEMPERATURE_RETURN}
        \subseteq DOMAIN setpoints

\* necessary_setpoints.issubset(setpoints_set)
HasNecessary(setpoints) == necessary_setpoints \subseteq DOMAIN setpoints

\* the three setters in the order of the source; a missing heat demand is
\* the KeyError of setpoints[PROPERTY_HEAT_DEMAND]
apply_setpoints(setpoints) ==
    LET s0 == [cluster |-> [cluster EXCEPT !.setters = << >>],
               pandapipes_net |-> pandapipes_net]
        s1 == _set_supply_temperature(s0, setpoints[PROPERTY_TEMPERATURE_SUPPLY])
        s2 == _set_return_temperature(s1, setpoints[PROPERTY_TEMPERATURE_RETURN])
    IN  IF PROPERTY_HEAT_DEMAND \notin DOMAIN setpoints
        THEN {AState(s2.pandapipes_net, s2.cluster, exchanger,
                     Raise("set_setpoints", 240, "KeyError"))}
        ELSE {IF s3.raised
              THEN AState(s3.pandapipes_net, s3.cluster, exchanger,
                          Raise("set_setpoints", 208, "ValueError"))
              ELSE AState(s3.pandapipes_net, s3.cluster, exchanger,
                          IF DOMAIN setpoints # necessary_setpoints
                          THEN Return("set_setpoints", 243, None)
                          ELSE Return("set_setpoints", 240, None)) :
                s3 \in _set_heat_demand(s2, setpoints[PROPERTY_HEAT_DEMAND])}

\* ProductionCluster.set_setpoints(setpoints), setpoints a function from its
\* keys to their values
set_setpoints(setpoints) ==
    IF HasNecessary(setpoints)
    THEN apply_setpoints(setpoints)
    ELSE {AState(pandapipes_net, [cluster EXCEPT !.setters = << >>], exchanger,
                 Raise("set_setpoints", 249, "ValueError"))}

\* HeatExchanger.__init__(pandapipes_net, ..., index), index a set: empty for
\* None, else the one index
HeatExchanger(index) ==
    {AState(pandapipes_net, cluster,
            [made |-> TRUE, index |-> index, _initialized |-> FALSE,
             from_junction |-> None, to_junction |-> None],
            Return("HeatExchanger", 51, None))}

\* AssetAbstract.connect_junctions(from_junction, to_junction)
connect_junctions(from_junction, to_junction) ==
    {AState(pandapipes_net, cluster,
            [exchanger EXCEPT !.from_junction = from_junction,
                              !.to_junction = to_junction],
            Return("connect_junctions", 88, None))}

\* the indices of the rows of a table
TableIndices(table) == {table[i].index : i \in DOMAIN table}

\* the index pandapipes gives a row when none is asked for: one above the
\* largest of the table, 0 for an empty table
FreeIndex(table) ==
    IF table = << >> THEN 0
    ELSE 1 + (CHOOSE i \in TableIndices(table) :
                  \A j \in TableIndices(table) : i >= j)

\* pandapipes.create_heat_exchanger(net, ..., name, index): the table with
\* the new row and the row's index, or nothing when the index is taken
\* (pandapipes raises UserWarning)
create_heat_exchanger(table, name, index) ==
    IF index = {}
    THEN {[table |-> Append(table, [index |-> FreeIndex(table), name |-> name]),
           index |-> FreeIndex(table)]}
    ELSE {[table |-> Append(table, [index |-> i, name |-> name]), index |-> i] :
            i \in index \ TableIndices(table)}

\* a create that registers whatever _initialized says, under a free index
create_always ==
    {AState([pandapipes_net EXCEPT !.heat_exchanger = made.table], cluster,
            [exchanger EXCEPT !._initialized = TRUE, !.index = {made.index}],
            Return("create", 67, None)) :
       made \in create_heat_exchanger(pandapipes_net.heat_exchanger, "exchanger", {})}

\* HeatExchanger.create()
create ==
    IF exchanger._initialized
    THEN {ASame(Return("create", 55, None))}
    ELSE LET x == [exchanger EXCEPT !._initialized = TRUE]
             registered == create_heat_exchanger(pandapipes_net.heat_exchanger,
                                                 "exchanger", exchanger.index)
         IN  IF exchanger.from_junction = None \/ exchanger.to_junction = None
             THEN {AState(pandapipes_net, cluster, x,
                          Raise("create", 60, "AttributeError"))}
             ELSE IF registered = {}
             THEN {AState(pandapipes_net, cluster, x,
                          Raise("create", 58, "UserWarning"))}
             ELSE {AState([pandapipes_net EXCEPT !.heat_exchanger = made.table],
                          cluster, [x EXCEPT !.index = {made.index}],
                          Return("create", 67, None)) : made \in registered}

\* the temperatures and the heat demands a caller passes
Temperatures == {340, 370}

HeatDemands == {6000}

\* the keys a caller puts into a setpoints dictionary, one of them a key
\* that set_setpoints does not require
SetpointKeys == necessary_setpoints \cup {"pressure_supply"}

\* the dictionaries passed to set_setpoints
SetpointDicts ==
    UNION {{f \in [keys -> Temperatures \cup HeatDemands] :
               \A k \in keys :
                   (k = PROPERTY_HEAT_DEMAND) <=> (f[k] \in HeatDemands)} :
             keys \in SUBSET SetpointKeys}

\* the junctions of the net a caller holds
Junctions == {1, 2}

AStep(r) ==
    /\ pandapipes_net' = r.pandapipes_net
    /\ cluster' = r.cluster
    /\ exchanger' = r.exchanger
    /\ last' = r.last
    /\ UNCHANGED <<net, sim, pipe>>

ConstructCluster ==
    \E demand \in HeatDemands, supply \in Temperatures,
       return \in Temperatures \cup {NaN} :
        /\ ~Failed
        /\ ~cluster.made
        /\ \E r \in ProductionCluster(demand, supply, return) : AStep(r)

SetSetpoints ==
    \E setpoints \in SetpointDicts :
        /\ ~Failed
        /\ cluster.made
        /\ \E r \in set_setpoints(setpoints) : AStep(r)

ConstructExchanger ==
    \E index \in {{}} \cup {{i} : i \in 0..(MaxHeatExchangers - 1)} :
        /\ ~Failed
        /\ ~exchanger.made
        /\ \E r \in HeatExchanger(index) : AStep(r)

ConnectJunctions ==
    \E from_junction \in Junctions, to_junction \in Junctions :
        /\ ~Failed
        /\ exchanger.made
        /\ \E r \in connect_junctions(from_junction, to_junction) : AStep(r)

\* another component of the net registers a heat exchanger of its own
CreateOther ==
    /\ ~Failed
    /\ Len(pandapipes_net.heat_exchanger) < MaxHeatExchangers
    /\ \E made \in create_heat_exchanger(pandapipes_net.heat_exchanger, "other", {}) :
          AStep(AState([pandapipes_net EXCEPT !.heat_exchanger = made.table],
                       cluster, exchanger,
                       Return("create_heat_exchanger", 58, made.index)))

Create ==
    /\ ~Failed
    /\ exchanger.made
    /\ Len(pandapipes_net.heat_exchanger) < MaxHeatExchangers
           \/ exchanger._initialized
           \/ exchanger.from_junction = None
    /\ \E r \in create : AStep(r)

NextAssets ==
    \/ ConstructCluster
    \/ SetSetpoints
    \/ ConstructExchanger
    \/ ConnectJunctions
    \/ CreateOther
    \/ Create

SpecAssets == Init /\ [][NextAssets]_vars

----------------------------------------------------------------------------
\* the cluster c but for the record of the setters that ran
Attributes(c) == [c EXCEPT !.setters = << >>]

\* C28: a set_setpoints call that fails because the mass flow of the heat
\* demand is negative leaves the cluster as it was: temperature_supply,
\* temperature_return, the controlled mass flow and the rows of the pump and
\* of the valve in the net keep the values they had before the call.
C28_FailedSetpointsChangeNothing ==
    cluster.made =>
        \A setpoints \in SetpointDicts :
            \A r \in set_setpoints(setpoints) :
                (r.last.exc = "ValueError" /\ r.last.line = 208) =>
                    /\ r.cluster.temperature_supply = cluster.temperature_supply
                    /\ r.cluster.temperature_return = cluster.temperature_return
                    /\ r.cluster._controlled_mass_flow = cluster._controlled_mass_flow
                    /\ r.pandapipes_net.circ_pump_mass = pandapipes_net.circ_pump_mass
                    /\ r.pandapipes_net.flow_control = pandapipes_net.flow_control

\* C29: set_setpoints raises ValueError whenever one of the three required
\* setpoints is missing from the dictionary, and then runs no setter and
\* changes nothing of the cluster or the net; with all three present it runs
\* the setters of the supply temperature, the return temperature and the
\* heat demand, in this order.
C29_MissingSetpointRejected ==
    cluster.made =>
        \A setpoints \in SetpointDicts :
            \A r \in set_setpoints(setpoints) :
                IF necessary_setpoints \subseteq DOMAIN setpoints
                THEN r.cluster.setters = <<"_set_supply_temperature",
                                           "_set_return_temperature",
                                           "_set_heat_demand">>
                ELSE /\ r.last.exc = "ValueError"
                     /\ r.cluster.setters = << >>
                     /\ Attributes(r.cluster) = Attributes(cluster)
                     /\ r.pandapipes_net = pandapipes_net
                     /\ r.exchanger = exchanger

\* a call with a dictionary that lacks a required setpoint has raised, on a
\* cluster whose pump and valve rows hold a mass flow that is not zero
C29_Witness ==
    /\ last.op = "set_setpoints"
    /\ last.line = 249
    /\ cluster.setters = << >>
    /\ cluster._controlled_mass_flow > 0
    /\ pandapipes_net.circ_pump_mass[cluster._circ_pump].mdot_flow_kg_per_s > 0
    /\ pandapipes_net.flow_control[cluster._flow_control].controlled_mdot_kg_per_s > 0

\* the rows of the heat_exchanger table that the exchanger registered
OwnRows ==
    {i \in DOMAIN pandapipes_net.heat_exchanger :
        pandapipes_net.heat_exchanger[i].name = "exchanger"}

\* C30: over any sequence of create() calls the heat exchanger is registered
\* in the net at most once: after its first call, a call of create changes
\* neither the net nor the exchanger's index; ProductionCluster._create is
\* guarded in the same way.
C30_CreateOnce ==
    /\ Cardinality(OwnRows) <= 1
    /\ exchanger._initialized =>
          \A r \in create :
              /\ r.last.exc = ""
              /\ r.pandapipes_net = pandapipes_net
              /\ r.exchanger = exchanger
    /\ cluster._initialized =>
          _create([cluster |-> cluster, pandapipes_net |-> pandapipes_net])
              = [cluster |-> cluster, pandapipes_net |-> pandapipes_net]

\* a second create() has returned for an exchanger that the first one
\* registered next to another component's row
C30_Witness ==
    /\ last.op = "create"
    /\ last.line = 55
    /\ Cardinality(OwnRows) = 1
    /\ Len(pandapipes_net.heat_exchanger) = 2

====
